---- MODULE Spec2Model ----
(***************************************************************************)
(* OpenAiLLM (src/llms/openai.ts): construction of the chat model, the     *)
(* two-message prompt, and generateTags with its error classifier.         *)
(*                                                                         *)
(* Text is modelled by TLA+ strings, character for character, with one     *)
(* exception: a TLA+ string cannot hold a backquote, so every backquote of *)
(* the source's templates is written as an apostrophe (the fence is ''').  *)
(* "string | null" and "T | undefined" values are sequences of at most one *)
(* element: <<>> is null/undefined, <<v>> is the value v.                  *)
(***************************************************************************)
EXTENDS Integers, Sequences, FiniteSets, TLC

VARIABLES inst, baseURL, modelName, toolUse, prompt, model, sdkError,
          ctorThrown, bindCount, catalog, pc, documentText, tagsString,
          request, settled, outcome, invocations

instVars == <<inst, baseURL, modelName, toolUse, prompt, model, sdkError,
              ctorThrown, bindCount>>
callVars == <<pc, documentText, tagsString, request, settled, outcome,
              invocations>>
vars == <<inst, baseURL, modelName, toolUse, prompt, model, sdkError,
          ctorThrown, bindCount, catalog, pc, documentText, tagsString,
          request, settled, outcome, invocations>>

----------------------------------------------------------------------------
(* Bounds of the model. *)

\* An error message is built from at most this many fragments.
MaxFragments == 2
\* A tag list of a reply holds at most this many tags.
MaxTags == 1

----------------------------------------------------------------------------
(* Text. *)

Null == <<>>
Undefined == <<>>
Some(v) == <<v>>

\* String.prototype.includes: sub occurs in s at some position.
Includes(s, sub) ==
    \E i \in 1..(Len(s) - Len(sub) + 1) : SubSeq(s, i, i + Len(sub) - 1) = sub

\* The position of the first occurrence of the character ch in s, 0 if none.
FirstIndex(s, ch) ==
    IF \E i \in 1..Len(s) : SubSeq(s, i, i) = ch
    THEN CHOOSE i \in 1..Len(s) :
            /\ SubSeq(s, i, i) = ch
            /\ \A j \in 1..(i - 1) : SubSeq(s, j, j) # ch
    ELSE 0

\* The f-string template parser of the prompt templates: literal text and
\* {variable} nodes, in order.  (The templates of getPrompt hold no escaped
\* braces.)
RECURSIVE ParseFString(_)
ParseFString(t) ==
    IF t = "" THEN <<>>
    ELSE LET open == FirstIndex(t, "{") IN
         IF open = 0 THEN <<[type |-> "literal", text |-> t]>>
         ELSE LET rest  == SubSeq(t, open + 1, Len(t))
                  close == FirstIndex(rest, "}")
                  lit   == IF open = 1 THEN <<>>
                           ELSE <<[type |-> "literal",
                                   text |-> SubSeq(t, 1, open - 1)]>>
              IN lit \o <<[type |-> "variable",
                           name |-> SubSeq(rest, 1, close - 1)]>>
                     \o ParseFString(SubSeq(rest, close + 1, Len(rest)))

\* Interpolation of a parsed template: a literal is copied, a variable is
\* replaced by its value, which is not parsed again.
RECURSIVE Interpolate(_, _)
Interpolate(nodes, values) ==
    IF nodes = <<>> THEN ""
    ELSE LET n == Head(nodes) IN
         (IF n.type = "literal" THEN n.text ELSE values[n.name])
            \o Interpolate(Tail(nodes), values)

----------------------------------------------------------------------------
(* getPrompt. *)

systemMessage ==
    "\nYou are an expert at categorizing OSINT technical texts using tags. "
    \o "Your task is to create tags for the mentions of technologies, "
    \o "company names, suppliers and other key information. Tags are used "
    \o "to categorize and organize documents based on its content. The "
    \o "format of a tag is a pound sign followed by the category "
    \o "\"#<category>\", for example \"#networking\".  \n"
    \o "Here are some existing tags that you can use to categorize the "
    \o "document.\n\nEXISTING TAGS:\n'''\n{tagsString}\n'''\n\n"
    \o "Tag the users document based on its content. You can use EXISTING "
    \o "TAGS but also create  NEW TAGS that you come up with on your own. "
    \o "Ensure that the tags accurately reflect the document's primary "
    \o "focus and themes.\n"

humanMessage == "DOCUMENT:\n'''{document}'''"

\* ChatPromptTemplate.fromMessages: the two message templates, parsed.
GetPrompt ==
    << [role |-> "system", nodes |-> ParseFString(systemMessage)],
       [role |-> "human",  nodes |-> ParseFString(humanMessage)] >>

\* A variant that parses the filled text again, so that braces in a value are
\* taken for variables.
FormatMessages_Reparse(p, values) ==
    [i \in 1..Len(p) |->
        [role |-> p[i].role,
         content |-> Interpolate(ParseFString(Interpolate(p[i].nodes, values)),
                                 values)]]

\* prompt.invoke: every message template filled with the same values.
FormatMessages(p, values) ==
    [i \in 1..Len(p) |->
        [role |-> p[i].role, content |-> Interpolate(p[i].nodes, values)]]

----------------------------------------------------------------------------
(* getModel. *)

Temperature == 0
TimeoutMs == 10000
ToolName == "TagDocumentTool"

NoModel == [kind |-> "unset"]

\* new ChatOpenAI({...}) when it does not throw.
ChatOpenAI(name, url) ==
    [kind |-> "ChatOpenAI", modelName |-> name, baseURL |-> url,
     temperature |-> Temperature, timeout |-> TimeoutMs,
     tools |-> <<>>, tool_choice |-> Null, parser |-> Null]

\* model.bind({tools, tool_choice}).pipe(new JsonOutputKeyToolsParser(...))
ModelWithOutputParser(m) ==
    [m EXCEPT !.tools = <<ToolName>>,
              !.tool_choice = Some([type |-> "function", name |-> ToolName]),
              !.parser = Some([keyName |-> ToolName, returnSingle |-> TRUE])]

KeyNotFound == "OpenAI or Azure OpenAI API key not found"

\* The catch block of getModel: the error thrown for an SDK error message.
GetModelError(message) ==
    IF Includes(message, KeyNotFound)
    THEN "Incorrect OpenAI API key. Please check your API key."
    ELSE "Error while instantiating model."

\* A variant that binds the tool before the chat model is known to exist.
GetModel_BindFirst(name, url, flag, sdk) ==
    IF sdk # Null
    THEN [thrown |-> Some(GetModelError(sdk[1])), model |-> NoModel,
          binds |-> IF flag = TRUE THEN 1 ELSE 0]
    ELSE IF flag = TRUE
         THEN [thrown |-> Null,
               model |-> ModelWithOutputParser(ChatOpenAI(name, url)),
               binds |-> 1]
         ELSE [thrown |-> Null, model |-> ChatOpenAI(name, url), binds |-> 0]

\* getModel: sdk is Null when new ChatOpenAI succeeds, else the message of
\* the error it throws.  The result: the error thrown (or Null), the model
\* returned, and the number of tool bindings made.
GetModel(name, url, flag, sdk) ==
    IF sdk # Null
    THEN [thrown |-> Some(GetModelError(sdk[1])), model |-> NoModel,
          binds |-> 0]
    ELSE IF flag = TRUE
         THEN [thrown |-> Null,
               model |-> ModelWithOutputParser(ChatOpenAI(name, url)),
               binds |-> 1]
         ELSE [thrown |-> Null, model |-> ChatOpenAI(name, url), binds |-> 0]

----------------------------------------------------------------------------
(* The error classifier of generateTags. *)

IncorrectKeyError == "Incorrect API key. Please check your API key."
RateLimitError ==
    "You are sending requests too quickly. Please pace your requests or "
    \o "read OpenAI's Rate limit guide."
QuotaError ==
    "You have run out of OpenAI credits or hit your maximum monthly spend."
ServerError ==
    "Issue on OpenAI's servers. Please retry your request after a brief wait."
OverloadedError ==
    "OpenAI's servers are experiencing high traffic. Please retry your "
    \o "requests after a brief wait."
TooLongError ==
    "Your document is too long. Please reduce the length of your document."
InvalidURLError ==
    "Invalid custom base URL provided. Please check your custom base URL."
UnreachableError ==
    "Could not connect to custom base URL provided. Please check your "
    \o "custom base URL."
GenericError == "Error while generating tags."

\* A variant that matches the short phrases of the classification table
\* instead of the full vendor sentences.
ClassifyError_ShortTriggers(message, url, name) ==
    IF Includes(message, "Incorrect API key") THEN IncorrectKeyError
    ELSE IF Includes(message, "Rate limit reached") THEN RateLimitError
    ELSE IF Includes(message, "exceeded your current quota") THEN QuotaError
    ELSE IF Includes(message, "server had an error") THEN ServerError
    ELSE IF Includes(message, "engine is currently overloaded")
    THEN OverloadedError
    ELSE IF Includes(message, "reduce the length") THEN TooLongError
    ELSE IF Includes(message, "Invalid URL") THEN InvalidURLError
    ELSE IF /\ Includes(message, "Connection error")
            /\ url # Null
            /\ (Includes(name, "gpt-4") \/ Includes(name, "gpt-3.5-turbo"))
    THEN UnreachableError
    ELSE GenericError

\* A variant whose last branch throws the caught error again as it is.
ClassifyError_Rethrow(message, url, name) ==
    IF Includes(message, "Incorrect API key") THEN IncorrectKeyError
    ELSE IF Includes(message, "Rate limit reached for requests")
    THEN RateLimitError
    ELSE IF Includes(message, "You exceeded your current quota, please check your plan and billing details")
    THEN QuotaError
    ELSE IF Includes(message, "The server had an error while processing your request")
    THEN ServerError
    ELSE IF Includes(message, "The engine is currently overloaded, please try again later")
    THEN OverloadedError
    ELSE IF Includes(message, "Please reduce the length") THEN TooLongError
    ELSE IF Includes(message, "Invalid URL") THEN InvalidURLError
    ELSE IF /\ Includes(message, "Connection error")
            /\ url # Null
            /\ (Includes(name, "gpt-4") \/ Includes(name, "gpt-3.5-turbo"))
    THEN UnreachableError
    ELSE message

\* A variant that tests the endpoint rows before the others.
ClassifyError_Reordered(message, url, name) ==
    IF Includes(message, "Invalid URL") THEN InvalidURLError
    ELSE IF /\ Includes(message, "Connection error")
            /\ url # Null
            /\ (Includes(name, "gpt-4") \/ Includes(name, "gpt-3.5-turbo"))
    THEN UnreachableError
    ELSE IF Includes(message, "Incorrect API key") THEN IncorrectKeyError
    ELSE IF Includes(message, "Rate limit reached for requests")
    THEN RateLimitError
    ELSE IF Includes(message, "You exceeded your current quota, please check your plan and billing details")
    THEN QuotaError
    ELSE IF Includes(message, "The server had an error while processing your request")
    THEN ServerError
    ELSE IF Includes(message, "The engine is currently overloaded, please try again later")
    THEN OverloadedError
    ELSE IF Includes(message, "Please reduce the length") THEN TooLongError
    ELSE GenericError

\* A variant that does not ask whether a custom base URL is configured.
ClassifyError_AnyEndpoint(message, url, name) ==
    IF Includes(message, "Incorrect API key") THEN IncorrectKeyError
    ELSE IF Includes(message, "Rate limit reached for requests")
    THEN RateLimitError
    ELSE IF Includes(message, "You exceeded your current quota, please check your plan and billing details")
    THEN QuotaError
    ELSE IF Includes(message, "The server had an error while processing your request")
    THEN ServerError
    ELSE IF Includes(message, "The engine is currently overloaded, please try again later")
    THEN OverloadedError
    ELSE IF Includes(message, "Please reduce the length") THEN TooLongError
    ELSE IF Includes(message, "Invalid URL") THEN InvalidURLError
    ELSE IF /\ Includes(message, "Connection error")
            /\ (Includes(name, "gpt-4") \/ Includes(name, "gpt-3.5-turbo"))
    THEN UnreachableError
    ELSE GenericError

\* The catch block of generateTags: the message of the error thrown for a
\* caught error with the given message.
ClassifyError(message, url, name) ==
    IF Includes(message, "Incorrect API key") THEN IncorrectKeyError
    ELSE IF Includes(message, "Rate limit reached for requests")
    THEN RateLimitError
    ELSE IF Includes(message, "You exceeded your current quota, please check your plan and billing details")
    THEN QuotaError
    ELSE IF Includes(message, "The server had an error while processing your request")
    THEN ServerError
    ELSE IF Includes(message, "The engine is currently overloaded, please try again later")
    THEN OverloadedError
    ELSE IF Includes(message, "Please reduce the length") THEN TooLongError
    ELSE IF Includes(message, "Invalid URL") THEN InvalidURLError
    ELSE IF /\ Includes(message, "Connection error")
            /\ url # Null
            /\ (Includes(name, "gpt-4") \/ Includes(name, "gpt-3.5-turbo"))
    THEN UnreachableError
    ELSE GenericError

----------------------------------------------------------------------------
(* formatOutputTags of the base class LLM, which is not part of the        *)
(* sources at hand: the two lists merged into one flat list.               *)

RECURSIVE Dedup(_)
Dedup(s) ==
    IF s = <<>> THEN <<>>
    ELSE LET front == Dedup(SubSeq(s, 1, Len(s) - 1))
             last  == s[Len(s)]
         IN IF \E i \in 1..Len(front) : front[i] = last
            THEN front ELSE Append(front, last)

OrEmpty(list) == IF list = Undefined THEN <<>> ELSE list[1]

\* What a call formatOutputTags(tags, newTags) can do: with both lists
\* given it returns their union; with a list undefined it either throws a
\* TypeError or merges what is there.
FormatOutputTags(tags, newTags) ==
    IF tags = Undefined \/ newTags = Undefined
    THEN { [kind |-> "throw", message |-> "tags is not iterable"],
           [kind |-> "return",
            tags |-> Dedup(OrEmpty(tags) \o OrEmpty(newTags))] }
    ELSE { [kind |-> "return", tags |-> Dedup(tags[1] \o newTags[1])] }

----------------------------------------------------------------------------
(* Inputs. *)

Calls == {"a", "b"}
FirstCall == "a"

ModelIds == {"gpt-4o", "gpt-3.5-turbo", "o1-mini"}
BaseURLs == {Null, Some("http://localhost:1234/v1")}
SdkErrors ==
    { KeyNotFound,
      "Error: OpenAI or Azure OpenAI API key not found at new ChatOpenAI",
      "Some unrelated vendor text" }

Documents == {"Cisco IOS XE on {tagsString}", "'''\n#vpn"}
Catalogs == {"- #networking\n- #osint", "{document}"}
CatalogErrors == {"Cannot read properties of undefined (reading 'getTags')"}

\* The trigger phrases of the classifier, phrases that hold only a part of
\* one, and a text that holds none.
Fragments ==
    { "Incorrect API key",
      "Rate limit reached for requests",
      "You exceeded your current quota, please check your plan and billing details",
      "The server had an error while processing your request",
      "The engine is currently overloaded, please try again later",
      "Please reduce the length",
      "Invalid URL",
      "Connection error",
      "Rate limit reached for tokens",
      "You exceeded your current quota.",
      "The server had an error processing your request",
      "The engine is currently overloaded.",
      "You must reduce the length",
      "Some unrelated vendor text" }

RECURSIVE MessagesOf(_)
MessagesOf(n) ==
    IF n = 0 THEN {""}
    ELSE {(IF m = "" THEN "" ELSE m \o " ") \o f :
             m \in MessagesOf(n - 1), f \in Fragments}

Messages == UNION {MessagesOf(n) : n \in 0..MaxFragments}

Tags == {"#networking", "#osint"}

RECURSIVE TagListsOf(_)
TagListsOf(n) ==
    IF n = 0 THEN {<<>>}
    ELSE {Append(l, t) : l \in TagListsOf(n - 1), t \in Tags}

TagLists == UNION {TagListsOf(n) : n \in 0..MaxTags}

\* What chain.invoke can resolve to.  With the output parser: the arguments
\* of the tool call, or undefined when the reply holds no such call.
\* Without it: the chat message of the reply, which has a content and no
\* tags and newTags fields.
Replies(m) ==
    IF m = NoModel THEN {}
    ELSE IF m.parser # Null
    THEN {[kind |-> "args", tags |-> Some(t), newTags |-> n] :
             t \in TagLists, n \in {Some(l) : l \in TagLists} \cup {Undefined}}
         \cup {[kind |-> "undefined"]}
    ELSE {[kind |-> "message", content |-> "#networking #osint",
           tags |-> Undefined, newTags |-> Undefined]}

----------------------------------------------------------------------------
(* State. *)

NoRequest == <<>>
NoneSettled == [kind |-> "none"]
NoOutcome == [kind |-> "none"]

Init ==
    /\ inst = "none"
    /\ baseURL = Null
    /\ modelName = ""
    /\ toolUse = FALSE
    /\ prompt = <<>>
    /\ model = NoModel
    /\ sdkError = Null
    /\ ctorThrown = Null
    /\ bindCount = 0
    /\ catalog \in Catalogs
    /\ pc = [c \in Calls |-> "idle"]
    /\ documentText = [c \in Calls |-> ""]
    /\ tagsString = [c \in Calls |-> ""]
    /\ request = [c \in Calls |-> NoRequest]
    /\ settled = [c \in Calls |-> NoneSettled]
    /\ outcome = [c \in Calls |-> NoOutcome]
    /\ invocations = [c \in Calls |-> 0]

\* super(modelId, apiKey) of the base class LLM, which is not part of the
\* sources at hand: the model's name and its configured capability flag.
BaseLLM(modelId, flag) ==
    [modelName |-> modelId, modelInfo |-> [modelId |-> modelId, toolUse |-> flag]]

\* new OpenAiLLM(modelId, apiKey, baseURL): the fields are assigned in the
\* constructor's order, and getModel either returns the model or throws.
Construct(modelId, url, flag, sdk) ==
    /\ inst = "none"
    /\ LET base == BaseLLM(modelId, flag)
           r == GetModel(base.modelInfo.modelId, url, base.modelInfo.toolUse,
                         sdk)
       IN
       /\ modelName' = base.modelName
       /\ toolUse' = base.modelInfo.toolUse
       /\ baseURL' = url
       /\ prompt' = GetPrompt
       /\ model' = r.model
       /\ bindCount' = bindCount + r.binds
       /\ sdkError' = sdk
       /\ ctorThrown' = r.thrown
       /\ inst' = IF r.thrown = Null THEN "ready" ELSE "failed"
    /\ UNCHANGED <<catalog, pc, documentText, tagsString, request, settled,
                   outcome, invocations>>

\* The vault's tags change between calls.
SetCatalog(cat) ==
    /\ cat # catalog
    /\ catalog' = cat
    /\ UNCHANGED <<instVars, callVars>>

\* generateTags up to its await: the chain is built, getTagsString is
\* called outside the try block (so an error it throws leaves the call as it
\* is), and chain.invoke submits the filled prompt.
GenerateTags(c, doc, catalogError) ==
    /\ inst = "ready"
    /\ pc[c] = "idle"
    /\ IF catalogError # Null
       THEN /\ pc' = [pc EXCEPT ![c] = "done"]
            /\ outcome' = [outcome EXCEPT
                             ![c] = [kind |-> "throw",
                                     message |-> catalogError[1]]]
            /\ UNCHANGED <<documentText, tagsString, request, invocations>>
       ELSE /\ pc' = [pc EXCEPT ![c] = "awaiting"]
            /\ documentText' = [documentText EXCEPT ![c] = doc]
            /\ tagsString' = [tagsString EXCEPT ![c] = catalog]
            /\ request' = [request EXCEPT
                             ![c] = FormatMessages(prompt,
                                       [tagsString |-> catalog,
                                        document |-> doc])]
            /\ invocations' = [invocations EXCEPT ![c] = @ + 1]
            /\ UNCHANGED outcome
    /\ UNCHANGED <<instVars, catalog, settled>>

\* The end of a call: its locals and its request are gone.
Finish(c, how, result) ==
    /\ pc' = [pc EXCEPT ![c] = "done"]
    /\ settled' = [settled EXCEPT ![c] = how]
    /\ outcome' = [outcome EXCEPT ![c] = result]
    /\ documentText' = [documentText EXCEPT ![c] = ""]
    /\ tagsString' = [tagsString EXCEPT ![c] = ""]
    /\ request' = [request EXCEPT ![c] = NoRequest]
    /\ UNCHANGED <<instVars, catalog, invocations>>

Thrown(message) ==
    [kind |-> "throw", message |-> ClassifyError(message, baseURL, modelName)]

\* chain.invoke resolves: the rest of the try block runs, and an error
\* raised there (a read of a field of undefined, formatOutputTags throwing)
\* is caught and classified like any other.
InvokeResolves(c, reply) ==
    /\ pc[c] = "awaiting"
    /\ IF reply.kind = "undefined"
       THEN Finish(c, [kind |-> "reply", value |-> reply],
                   Thrown("Cannot read properties of undefined (reading 'tags')"))
       ELSE \E r \in FormatOutputTags(reply.tags, reply.newTags) :
               Finish(c, [kind |-> "reply", value |-> reply],
                      IF r.kind = "throw" THEN Thrown(r.message) ELSE r)

\* A variant that invokes the chain once more after a first failure.
InvokeRejects_Retry(c, message) ==
    /\ pc[c] = "awaiting"
    /\ IF invocations[c] < 2
       THEN /\ invocations' = [invocations EXCEPT ![c] = @ + 1]
            /\ UNCHANGED <<instVars, catalog, pc, documentText, tagsString,
                           request, settled, outcome>>
       ELSE Finish(c, [kind |-> "error", message |-> message],
                   Thrown(message))

\* A variant that drops the custom endpoint of the instance after a failure.
InvokeRejects_ResetURL(c, message) ==
    /\ pc[c] = "awaiting"
    /\ pc' = [pc EXCEPT ![c] = "done"]
    /\ settled' = [settled EXCEPT ![c] = [kind |-> "error", message |-> message]]
    /\ outcome' = [outcome EXCEPT ![c] = Thrown(message)]
    /\ documentText' = [documentText EXCEPT ![c] = ""]
    /\ tagsString' = [tagsString EXCEPT ![c] = ""]
    /\ request' = [request EXCEPT ![c] = NoRequest]
    /\ baseURL' = Null
    /\ UNCHANGED <<inst, modelName, toolUse, prompt, model, sdkError,
                   ctorThrown, bindCount, catalog, invocations>>

\* chain.invoke rejects with an error of the given message: the catch block.
InvokeRejects(c, message) ==
    /\ pc[c] = "awaiting"
    /\ Finish(c, [kind |-> "error", message |-> message], Thrown(message))

Step(c, messages) ==
    \/ \E doc \in Documents, e \in {Null} \cup {Some(m) : m \in CatalogErrors} :
          GenerateTags(c, doc, e)
    \/ \E reply \in Replies(model) : InvokeResolves(c, reply)
    \/ \E message \in messages : InvokeRejects(c, message)

Environment ==
    \/ \E modelId \in ModelIds, url \in BaseURLs, flag \in BOOLEAN,
          sdk \in {Null} \cup {Some(m) : m \in SdkErrors} :
          Construct(modelId, url, flag, sdk)
    \/ \E cat \in Catalogs : SetCatalog(cat)

\* Two overlapping calls on one instance.
Next == Environment \/ \E c \in Calls : Step(c, Fragments)

Spec == Init /\ [][Next]_vars

\* One call, with every error message of the bound.
NextClassify == Environment \/ Step(FirstCall, Messages)

SpecClassify == Init /\ [][NextClassify]_vars

----------------------------------------------------------------------------
(* The classification table. *)

\* The phrases the catch block of generateTags looks for, in its order.
CodeTriggers ==
    << "Incorrect API key",
       "Rate limit reached for requests",
       "You exceeded your current quota, please check your plan and billing details",
       "The server had an error while processing your request",
       "The engine is currently overloaded, please try again later",
       "Please reduce the length",
       "Invalid URL",
       "Connection error" >>

\* The phrases the specification's table gives for the same rows.
TableTriggers ==
    << "Incorrect API key",
       "Rate limit reached",
       "exceeded your current quota",
       "server had an error",
       "engine is currently overloaded",
       "reduce the length",
       "Invalid URL",
       "Connection error" >>

\* The error of each row; the ninth row is the fallback.
RowErrors ==
    << IncorrectKeyError, RateLimitError, QuotaError, ServerError,
       OverloadedError, TooLongError, InvalidURLError, UnreachableError,
       GenericError >>

ClassifiedErrors == {RowErrors[i] : i \in 1..9}

\* Whether the model name is of the gpt-4 or gpt-3.5-turbo family.
KnownFamily == Includes(modelName, "gpt-4") \/ Includes(modelName, "gpt-3.5-turbo")

\* Whether row i of the classifier applies to a message on this instance.
RowMatches(i, message) ==
    IF i = 9 THEN TRUE
    ELSE IF i = 8
    THEN Includes(message, CodeTriggers[8]) /\ baseURL # Null /\ KnownFamily
    ELSE Includes(message, CodeTriggers[i])

\* The call has ended on an error of the remote invocation.
RemoteError(c) == pc[c] = "done" /\ settled[c].kind = "error"

Throws(c, message) == outcome[c] = [kind |-> "throw", message |-> message]

----------------------------------------------------------------------------
(* Claims. *)

\* C1, as stated: an error of the remote call whose message contains the
\* table's trigger phrase of one of the first seven rows is thrown again as
\* the error of that row.
C1_AsStated ==
    \A c \in Calls : RemoteError(c) =>
        \A i \in 1..7 :
            Includes(settled[c].message, TableTriggers[i])
                => Throws(c, RowErrors[i])

\* C1, amended: an error of the remote call whose message contains the full
\* phrase the code looks for in one of the first seven rows, and the phrase
\* of no earlier row, is thrown again as the error of that row.
C1_FullPhraseClassified ==
    \A c \in Calls : RemoteError(c) =>
        \A i \in 1..7 :
            ( /\ Includes(settled[c].message, CodeTriggers[i])
              /\ \A j \in 1..(i - 1) :
                    ~Includes(settled[c].message, CodeTriggers[j]) )
                => Throws(c, RowErrors[i])

\* A rate-limit error of the vendor, thrown again as the request to pace.
C1_Witness ==
    \E c \in Calls :
        /\ RemoteError(c)
        /\ Includes(settled[c].message, "Rate limit reached for requests")
        /\ ~Includes(settled[c].message, "Incorrect API key")
        /\ Throws(c, RateLimitError)

\* C2: an error of the remote call whose message contains none of the
\* table's trigger phrases is thrown again as 'Error while generating
\* tags.', and as none of the specific errors.
C2_UnmatchedIsGeneric ==
    \A c \in Calls :
        ( /\ RemoteError(c)
          /\ \A i \in 1..8 : ~Includes(settled[c].message, TableTriggers[i]) )
            => /\ Throws(c, "Error while generating tags.")
               /\ outcome[c].message \notin {RowErrors[i] : i \in 1..8}

\* An unrelated vendor text ends as the generic failure.
C2_Witness ==
    \E c \in Calls :
        /\ RemoteError(c)
        /\ settled[c].message = "Some unrelated vendor text"
        /\ Throws(c, GenericError)

\* C3: the classifier is first-match-wins in the order of the table: the
\* error thrown for a remote error is the error of the earliest row that
\* applies to its message, and the call ends with that one error.
C3_FirstMatchWins ==
    \A c \in Calls : RemoteError(c) =>
        /\ outcome[c].kind = "throw"
        /\ \A i \in 1..9 :
              ( /\ RowMatches(i, settled[c].message)
                /\ \A j \in 1..(i - 1) : ~RowMatches(j, settled[c].message) )
                  => outcome[c].message = RowErrors[i]

\* A message that holds the phrases of two rows, the later row's first.
C3_Witness ==
    \E c \in Calls :
        /\ RemoteError(c)
        /\ settled[c].message = "Invalid URL Rate limit reached for requests"
        /\ Throws(c, RateLimitError)

\* C4: an error whose message contains "Connection error" and the phrase of
\* no earlier row is thrown again as the unreachable-endpoint error exactly
\* when a custom base URL is configured and the model is of the gpt-4 or
\* gpt-3.5-turbo family, and as the generic failure otherwise.
C4_ConnectionError ==
    \A c \in Calls :
        ( /\ RemoteError(c)
          /\ Includes(settled[c].message, "Connection error")
          /\ \A j \in 1..7 : ~Includes(settled[c].message, CodeTriggers[j]) )
            => IF baseURL # Null /\ KnownFamily
               THEN Throws(c, UnreachableError)
               ELSE Throws(c, GenericError)

\* A connection error on an instance with a custom endpoint and a gpt-4
\* model.
C4_Witness ==
    \E c \in Calls :
        /\ RemoteError(c)
        /\ Includes(settled[c].message, "Connection error")
        /\ baseURL # Null
        /\ Includes(modelName, "gpt-4")
        /\ Throws(c, UnreachableError)

\* C5, as stated: every call of generateTags ends by returning a list of
\* tags or by throwing one of the classified errors, whatever failed.
C5_AsStated ==
    \A c \in Calls : pc[c] = "done" =>
        \/ outcome[c].kind = "return"
        \/ outcome[c].kind = "throw" /\ outcome[c].message \in ClassifiedErrors

\* C6, as stated: every call issues exactly one remote request, and a
\* failed invocation ends the call with a single thrown error.
C6_AsStated ==
    \A c \in Calls :
        /\ invocations[c] <= 1
        /\ pc[c] = "done" => invocations[c] = 1
        /\ RemoteError(c) => outcome[c].kind = "throw"

\* C6, amended: a call issues at most one remote request: exactly one once
\* getTagsString has returned, none when getTagsString throws.  A failed
\* invocation ends the call with a thrown error and no tag list, and a call
\* that has ended makes no further invocation and keeps its outcome.
C6_NoRetry ==
    /\ [](\A c \in Calls :
            /\ invocations[c] <= 1
            /\ pc[c] = "awaiting" => invocations[c] = 1
            /\ (pc[c] = "done" /\ settled[c].kind # "none")
                  => invocations[c] = 1
            /\ (pc[c] = "done" /\ settled[c].kind = "none")
                  => invocations[c] = 0 /\ outcome[c].kind = "throw"
            /\ RemoteError(c) => outcome[c].kind = "throw")
    /\ [][\A c \in Calls :
            /\ invocations'[c] >= invocations[c]
            /\ pc[c] = "done"
                  => /\ pc'[c] = "done"
                     /\ invocations'[c] = invocations[c]
                     /\ outcome'[c] = outcome[c]]_vars

\* A call whose one invocation failed, ended by a thrown error.
C6_Witness ==
    \E c \in Calls :
        /\ RemoteError(c)
        /\ invocations[c] = 1
        /\ outcome[c].kind = "throw"

\* The tags a plain reply's text holds, one per word.
RECURSIVE Words(_)
Words(text) ==
    IF text = "" THEN <<>>
    ELSE LET sp == FirstIndex(text, " ") IN
         IF sp = 0 THEN <<text>>
         ELSE <<SubSeq(text, 1, sp - 1)>> \o Words(SubSeq(text, sp + 1, Len(text)))

\* C7, as stated: with the capability flag set the model is bound to the
\* one tool and the call returns the union of the reply's existing and new
\* tags; with the flag unset the model is the plain one and the call returns
\* the tag list of the model's reply.
C7_AsStated ==
    /\ inst = "ready" =>
          IF toolUse THEN model.tools = <<ToolName>> /\ model.parser # Null
          ELSE model.tools = <<>> /\ model.parser = Null
    /\ \A c \in Calls :
          (pc[c] = "done" /\ settled[c].kind = "reply") =>
             LET reply == settled[c].value IN
             /\ ( /\ toolUse
                  /\ reply.kind = "args"
                  /\ reply.tags # Undefined
                  /\ reply.newTags # Undefined )
                   => /\ outcome[c].kind = "return"
                      /\ {outcome[c].tags[i] : i \in 1..Len(outcome[c].tags)}
                           = {reply.tags[1][i] : i \in 1..Len(reply.tags[1])}
                             \cup {reply.newTags[1][i] :
                                      i \in 1..Len(reply.newTags[1])}
             /\ ~toolUse
                   => /\ outcome[c].kind = "return"
                      /\ outcome[c].tags = Words(reply.content)

\* C8: the prompt submitted by a call holds two messages; the system
\* message contains the catalog text as it is, under EXISTING TAGS, the user
\* message is the document text as it is after DOCUMENT:, and the catalog is
\* the one getTagsString gives when the call is made.
C8_PromptVerbatim ==
    /\ [](\A c \in Calls : pc[c] = "awaiting" =>
            /\ Len(request[c]) = 2
            /\ request[c][1].role = "system"
            /\ Includes(request[c][1].content,
                        "EXISTING TAGS:\n'''\n" \o tagsString[c] \o "\n'''\n")
            /\ request[c][2].role = "human"
            /\ request[c][2].content
                 = "DOCUMENT:\n'''" \o documentText[c] \o "'''")
    /\ [][\A c \in Calls :
            (pc[c] = "idle" /\ pc'[c] = "awaiting")
               => /\ tagsString'[c] = catalog
                  /\ Includes(request'[c][1].content, catalog)]_vars

\* A request in flight whose catalog and document both hold braces.
C8_Witness ==
    \E c \in Calls :
        /\ pc[c] = "awaiting"
        /\ tagsString[c] = "{document}"
        /\ documentText[c] = "Cisco IOS XE on {tagsString}"
        /\ Includes(request[c][1].content, "{document}")
        /\ Includes(request[c][2].content, "{tagsString}")

\* C9: a call of generateTags leaves the instance's baseURL, prompt and
\* model as they are, a step of one call leaves the other call's request,
\* locals and outcome as they are, and two calls that end on the same
\* remote error or the same complete reply end the same way.
C9_NoSharedState ==
    /\ [](\A c, d \in Calls :
            ( /\ pc[c] = "done" /\ pc[d] = "done"
              /\ settled[c] = settled[d]
              /\ \/ settled[c].kind = "error"
                 \/ /\ settled[c].kind = "reply"
                    /\ settled[c].value.kind = "args"
                    /\ settled[c].value.newTags # Undefined )
                => outcome[c] = outcome[d])
    /\ [][inst = "ready" =>
            /\ inst' = "ready"
            /\ baseURL' = baseURL
            /\ prompt' = prompt
            /\ model' = model
            /\ modelName' = modelName]_vars
    /\ [][\A c \in Calls :
            pc'[c] = pc[c] =>
               /\ request'[c] = request[c]
               /\ documentText'[c] = documentText[c]
               /\ tagsString'[c] = tagsString[c]
               /\ settled'[c] = settled[c]
               /\ outcome'[c] = outcome[c]
               /\ invocations'[c] = invocations[c]]_vars

\* Two calls in flight at once on one instance, made with different
\* documents and different catalogs.
C9_Witness ==
    /\ \A c \in Calls : pc[c] = "awaiting"
    /\ documentText["a"] # documentText["b"]
    /\ tagsString["a"] # tagsString["b"]

\* C10: a construction ends with an instance whose prompt and model are
\* set, or with an error and no instance: the invalid-credentials error
\* when the chat model's error says the API key was not found, 'Error while
\* instantiating model.' for any other; and where it failed no tool was
\* bound and no request is ever made.
C10_Construction ==
    /\ inst = "ready" =>
          /\ ctorThrown = Null
          /\ prompt # <<>>
          /\ model # NoModel
    /\ inst = "failed" =>
          /\ sdkError # Null
          /\ ctorThrown =
               Some(IF Includes(sdkError[1],
                                "OpenAI or Azure OpenAI API key not found")
                    THEN "Incorrect OpenAI API key. Please check your API key."
                    ELSE "Error while instantiating model.")
          /\ model = NoModel
          /\ bindCount = 0
          /\ \A c \in Calls : pc[c] = "idle" /\ invocations[c] = 0
    /\ inst = "none" => ctorThrown = Null /\ model = NoModel

\* A construction for a tool-calling model that failed for want of a key.
C10_Witness ==
    /\ inst = "failed"
    /\ toolUse
    /\ sdkError = Some("OpenAI or Azure OpenAI API key not found")
    /\ ctorThrown = Some("Incorrect OpenAI API key. Please check your API key.")
    /\ bindCount = 0

====
